---- MODULE Spec2Model ----
(***************************************************************************)
(* Model of the two block-compressed disc-image codecs of aheadley/psic:   *)
(*   psic.py  - CISO/CSO compressor and decompressor (worker pool)         *)
(*   gsiz.py  - GCZ reader and decompressor (sequential)                   *)
(*                                                                         *)
(* Files are byte sequences.  Widths are scaled so that the reserved flag  *)
(* bit of an index word is reachable by a handful of blocks:               *)
(*   CISO index word : 7 bits, flag = bit 6   (source: 32 bits, bit 31)    *)
(*   GCZ  pointer    : 7 bits, flag = bit 6   (source: 64 bits, bit 63)    *)
(*   CISO block size : 16 bytes               (source: 0x800)              *)
(*   large-file size : 64 bytes               (source: 2 ** 31)            *)
(* zlib is an external library; it is modelled by a run-length codec with  *)
(* the same framing as a zlib stream: 2 header bytes, a self-terminating   *)
(* body, and an Adler-32 trailer (2 bytes here, 4 in zlib).                *)
(***************************************************************************)
EXTENDS Integers, Sequences, FiniteSets, TLC

\* ------------------------------------------------------------- bounds
MaxBlocks    == 4      \* blocks of a CISO input stream
MaxGczBlocks == 2      \* blocks of a GCZ file

\* ------------------------------------------------ program constants
CISO_HEADER_SIZE     == 24     \* 0x18
CISO_BLOCK_SIZE      == 16     \* scaled from 0x0800
UNCOMPRESSED_BITMASK == 64     \* scaled from 0x80000000
LARGE_FILE_SIZE      == 64     \* scaled from 2 ** 31
INDEX_ENTRY_LIMIT    == 128    \* scaled from 2 ** 32, the range of struct 'I'
COMPRESSION_THRESHOLD == 90
ADLER_MOD            == 65521
UNCOMPRESSED_BLOCK_FLAG == 64  \* scaled from 1 << 63
GCZ_BLOCK_SIZE       == 8      \* the block_size field of the GCZ files drawn

INDEX_BITMASK == UNCOMPRESSED_BITMASK - 1
CISO_MAGIC    == <<67, 73, 83, 79>>      \* 0x4F534943 little endian, 'CISO'
GCZ_MAGIC     == "B10BC001"

\* ------------------------------------------------------ byte helpers
Repeat(b, n) == [i \in 1..n |-> b]

Min(a, b) == IF a < b THEN a ELSE b

RECURSIVE Flatten(_)
Flatten(ss) == IF ss = <<>> THEN <<>> ELSE Head(ss) \o Flatten(Tail(ss))

\* handle.seek(pos); handle.read(n): a short read at end of file, everything
\* up to end of file for a negative n
Read(file, pos, n) ==
    IF pos >= Len(file) THEN <<>>
    ELSE IF n < 0 THEN SubSeq(file, pos + 1, Len(file))
    ELSE SubSeq(file, pos + 1, Min(Len(file), pos + n))

\* handle.seek(pos); handle.write(bytes) on a file at least pos long
WriteAt(file, pos, bytes) ==
    [i \in 1..(IF pos + Len(bytes) > Len(file) THEN pos + Len(bytes) ELSE Len(file)) |->
        IF i > pos /\ i <= pos + Len(bytes) THEN bytes[i - pos] ELSE file[i]]

\* struct '<I' and '<Q': little endian
Pack32(v) == <<v % 256, (v \div 256) % 256, (v \div 65536) % 256, (v \div 16777216) % 256>>
Unpack32(b) == b[1] + 256 * b[2] + 65536 * b[3] + 16777216 * b[4]
Pack64(v) == Pack32(v) \o <<0, 0, 0, 0>>

RECURSIVE PackIndex(_)
PackIndex(buf) == IF buf = <<>> THEN <<>> ELSE Pack32(Head(buf)) \o PackIndex(Tail(buf))

\* x & mask # 0, x & (mask - 1), x | mask, for mask a power of two
HasBit(x, mask) == (x \div mask) % 2 = 1
LowBits(x, mask) == x % mask
SetBit(x, mask) == IF HasBit(x, mask) THEN x ELSE x + mask

RECURSIVE Shl(_, _)
Shl(x, k) == IF k = 0 THEN x ELSE Shl(2 * x, k - 1)
RECURSIVE Shr(_, _)
Shr(x, k) == IF k = 0 THEN x ELSE Shr(x \div 2, k - 1)

\* ------------------------------------------------------------- zlib
RECURSIVE SumBytes(_)
SumBytes(s) == IF s = <<>> THEN 0 ELSE Head(s) + SumBytes(Tail(s))

AdlerA(s) == (1 + SumBytes(s)) % ADLER_MOD
RECURSIVE AdlerB(_)
AdlerB(s) == IF s = <<>> THEN 0
             ELSE (AdlerB(SubSeq(s, 1, Len(s) - 1)) + AdlerA(s)) % ADLER_MOD

\* zlib.adler32(data)
adler32(s) == AdlerB(s) * 65536 + AdlerA(s)

\* the checksum trailer of a zlib stream
Trailer(s) == <<AdlerB(s) % 256, AdlerA(s) % 256>>

\* length of the run of equal bytes that starts s
RECURSIVE RunLen(_)
RunLen(s) == IF Len(s) <= 1 THEN Len(s)
             ELSE IF s[2] = s[1] THEN 1 + RunLen(Tail(s)) ELSE 1

\* the deflate body: <count, byte> pairs and a terminating 0
RECURSIVE Deflate(_)
Deflate(s) == IF s = <<>> THEN <<0>>
              ELSE LET n == RunLen(s)
                   IN <<n, s[1]>> \o Deflate(SubSeq(s, n + 1, Len(s)))

\* zlib.compress(data, level)
ZlibCompress(s) == <<120, 1>> \o Deflate(s) \o Trailer(s)

\* inflate from byte i on: stops at the terminator, fails on a truncated body
RECURSIVE InflateFrom(_, _)
InflateFrom(s, i) ==
    IF i > Len(s) THEN [ok |-> FALSE, data |-> <<>>, next |-> i]
    ELSE IF s[i] = 0 THEN [ok |-> TRUE, data |-> <<>>, next |-> i + 1]
    ELSE IF i + 1 > Len(s) THEN [ok |-> FALSE, data |-> <<>>, next |-> i]
    ELSE LET r == InflateFrom(s, i + 2)
         IN [ok |-> r.ok, data |-> Repeat(s[i + 1], s[i]) \o r.data, next |-> r.next]

\* zlib.decompress(data, -15): a raw deflate body, bytes after it are ignored
RawInflate(s) ==
    LET r == InflateFrom(s, 1)
    IN IF r.ok THEN [ok |-> TRUE, err |-> "none", data |-> r.data]
       ELSE [ok |-> FALSE, err |-> "zlib.error", data |-> <<>>]

\* zlib.decompress(data): header, body and trailer are all checked
ZlibDecompress(s) ==
    IF Len(s) < 2 \/ s[1] # 120
    THEN [ok |-> FALSE, err |-> "zlib.error", data |-> <<>>]
    ELSE LET r == InflateFrom(s, 3)
         IN IF r.ok /\ Len(s) >= r.next + 1
                /\ SubSeq(s, r.next, r.next + 1) = Trailer(r.data)
            THEN [ok |-> TRUE, err |-> "none", data |-> r.data]
            ELSE [ok |-> FALSE, err |-> "zlib.error", data |-> <<>>]

\* ------------------------------------------------------------ state
VARIABLES
    fmt,          \* "ciso" or "gcz": the program that runs
    pc,           \* position of the run
    err,          \* the exception that ended the run, "none" otherwise
    input,        \* psic: the uncompressed input stream
    threads,      \* psic: size of the worker pool
    threshold,    \* psic: CisoCompressor.COMPRESSION_THRESHOLD of the instance
    cso,          \* psic: the container (output of compress, input of decompress)
    align,        \* psic: align of the run (compress local / header field)
    index_buffer, \* psic: index_buffer of the run
    tasks,        \* pool: the arguments handed to pool.map
    taken,        \* pool: number of tasks dispatched to workers
    inflight,     \* pool: tasks a worker is computing
    results,      \* pool: per task, the worker's result once it finished
    written,      \* block numbers written to the output by the current run
    out,          \* blocks written by a decompress run
    wpos,         \* psic: position at which compress wrote each block's data
    rpos,         \* psic: position at which decompress read each block
    gfile,        \* gsiz: the GCZ file read
    pristine,     \* gsiz: the same file before its corruption
    damage,       \* gsiz: what was corrupted, and in which block
    header,       \* gsiz: GczFile.header once loaded
    skip_broken,  \* gsiz: the skip_broken argument of decompress
    call          \* gsiz: the last get_block_size / get_block call and its outcome

vars == <<fmt, pc, err, input, threads, threshold, cso, align, index_buffer,
          tasks, taken, inflight, results, written, out, wpos, rpos,
          gfile, pristine, damage, header, skip_broken, call>>

psicVars == <<input, threads, threshold, cso, align, index_buffer,
              tasks, taken, inflight, results, wpos, rpos>>
gsizVars == <<gfile, pristine, damage, header, skip_broken, call>>

NoResult == [done |-> FALSE, ok |-> FALSE, err |-> "none",
             compressed |-> FALSE, data |-> <<>>]
NoCall   == [op |-> "none", block_num |-> 0, ok |-> FALSE, err |-> "none",
             size |-> 0, start |-> 0, data |-> <<>>]
NoHeader == [loaded |-> FALSE, tables |-> FALSE, magic_cookie |-> "",
             compressed_data_size |-> 0, data_size |-> 0, block_size |-> 0,
             num_blocks |-> 0, block_pointers |-> <<>>, block_hashes |-> <<>>]
NoDamage == [kind |-> "none", block |-> 0]

\* ------------------------------------------------------ psic: compress
\* CisoCompressor._build_header
BuildHeader(file_size, block_size, align_) ==
    CISO_MAGIC \o Pack32(CISO_HEADER_SIZE) \o Pack64(file_size)
        \o Pack32(block_size) \o <<1, align_, 0, 0>>

\* _compress_mp_helper with > for >=
CompressHelperStrict(data, threshold_) ==
    LET compressed_data == SubSeq(ZlibCompress(data), 3, Len(ZlibCompress(data)))
    IN IF Len(data) = 0
       THEN [done |-> TRUE, ok |-> FALSE, err |-> "ZeroDivisionError",
             compressed |-> FALSE, data |-> <<>>]
       ELSE IF (100 * Len(compressed_data)) \div Len(data) > threshold_
       THEN [done |-> TRUE, ok |-> TRUE, err |-> "none",
             compressed |-> FALSE, data |-> data]
       ELSE [done |-> TRUE, ok |-> TRUE, err |-> "none",
             compressed |-> TRUE, data |-> compressed_data]

\* _compress_mp_helper
CompressHelper(data, threshold_) ==
    LET compressed_data == SubSeq(ZlibCompress(data), 3, Len(ZlibCompress(data)))
    IN IF Len(data) = 0
       THEN [done |-> TRUE, ok |-> FALSE, err |-> "ZeroDivisionError",
             compressed |-> FALSE, data |-> <<>>]
       ELSE IF (100 * Len(compressed_data)) \div Len(data) >= threshold_
       THEN [done |-> TRUE, ok |-> TRUE, err |-> "none",
             compressed |-> FALSE, data |-> data]
       ELSE [done |-> TRUE, ok |-> TRUE, err |-> "none",
             compressed |-> TRUE, data |-> compressed_data]

\* CisoCompressor._get_align_padding: the name PADDING_BYTE is not defined in
\* the module, only as a class attribute, so the padding branch raises
AlignPadding(write_pos, align_) ==
    LET align_shift == Shl(1, align_)
    IN IF write_pos % align_shift # 0
       THEN [ok |-> FALSE, err |-> "NameError", padding |-> <<>>]
       ELSE [ok |-> TRUE, err |-> "none", padding |-> <<>>]

\* the index word compress records for a block written at write_pos
\* (psic.py 154-158); ok is FALSE where 'Align error' is raised
IndexEntry(write_pos, padding, compressed, align_) ==
    LET index == Shr(write_pos + Len(padding), align_)
    IN IF ~compressed
       THEN [ok |-> TRUE, index |-> SetBit(index, UNCOMPRESSED_BITMASK)]
       ELSE IF HasBit(index, UNCOMPRESSED_BITMASK)
       THEN [ok |-> FALSE, index |-> index]
       ELSE [ok |-> TRUE, index |-> index]

\* the blocks compress reads for the pool: input_handle.read(CISO_BLOCK_SIZE),
\* block_count times
InputBlocks(stream) ==
    [i \in 1..(Len(stream) \div CISO_BLOCK_SIZE) |->
        Read(stream, (i - 1) * CISO_BLOCK_SIZE, CISO_BLOCK_SIZE)]

\* ---------------------------------------------------------- the pool
\* pool.map returns once every task has a result
MapReturned(results_) == \A i \in 1..Len(results_) : results_[i].done

\* the results taken as imap_unordered might hand them over: the highest
\* finished task first
MapNextUnordered(written_, results_) ==
    LET left == {i \in 1..Len(results_) :
                    results_[i].done /\ \A j \in 1..Len(written_) : written_[j] # i - 1}
    IN CHOOSE i \in left : \A j \in left : j <= i

\* the for loop over the list pool.map returned takes the results in task order
MapNext(written_, results_) == Len(written_) + 1

\* ---------------------------------------------------- psic: decompress
\* CisoDecompressor._read_header
ReadHeader(header_bytes) ==
    [magic      |-> SubSeq(header_bytes, 1, 4),
     header_size |-> Unpack32(SubSeq(header_bytes, 5, 8)),
     file_size  |-> Unpack32(SubSeq(header_bytes, 9, 12)),
     block_size |-> Unpack32(SubSeq(header_bytes, 17, 20)),
     version    |-> header_bytes[21],
     align      |-> header_bytes[22]]

UnpackIndex(bytes, n) == [i \in 1..n |-> Unpack32(SubSeq(bytes, 4 * i - 3, 4 * i))]

\* IndexedBlockIterator.__call__: where block block_i (here from 1) is read
BlockStart(index_buffer_, block_i, align_) ==
    LowBits(index_buffer_[block_i], INDEX_BITMASK + 1)

BlockCompressed(index_buffer_, block_i) ==
    ~HasBit(index_buffer_[block_i], UNCOMPRESSED_BITMASK)

BlockReadSize(index_buffer_, block_i, align_) ==
    LET block_start == LowBits(index_buffer_[block_i], INDEX_BITMASK + 1)
        next_index  == LowBits(index_buffer_[block_i + 1], INDEX_BITMASK + 1)
    IN IF BlockCompressed(index_buffer_, block_i)
       THEN IF align_ # 0 THEN Shl(next_index - block_start + 1, align_)
            ELSE next_index - block_start
       ELSE CISO_BLOCK_SIZE

IterBlocks(file, align_, index_buffer_) ==
    [i \in 1..(Len(index_buffer_) - 1) |->
        [compressed |-> BlockCompressed(index_buffer_, i),
         data |-> Read(file, BlockStart(index_buffer_, i, align_),
                       BlockReadSize(index_buffer_, i, align_))]]

\* _decompress_mp_helper
DecompressHelper(compressed, data) ==
    IF compressed
    THEN LET r == RawInflate(data)
         IN [done |-> TRUE, ok |-> r.ok, err |-> r.err,
             compressed |-> TRUE, data |-> r.data]
    ELSE [done |-> TRUE, ok |-> TRUE, err |-> "none",
          compressed |-> FALSE, data |-> data]

\* ------------------------------------------------------- psic: inputs
\* blocks whose deflate body has 1, 3 and CISO_BLOCK_SIZE runs
UniformBlock == Repeat(1, CISO_BLOCK_SIZE)
ThreeRunBlock == Repeat(1, 6) \o Repeat(2, 5) \o Repeat(1, CISO_BLOCK_SIZE - 11)
NoisyBlock == [i \in 1..CISO_BLOCK_SIZE |-> 1 + (i % 2)]
BlockKinds == {UniformBlock, ThreeRunBlock, NoisyBlock}

RECURSIVE BlockLists(_)
BlockLists(n) == IF n = 0 THEN {<<>>}
                 ELSE {Append(l, b) : l \in BlockLists(n - 1), b \in BlockKinds}

\* input streams of 1..MaxBlocks whole blocks
Inputs == UNION {{Flatten(l) : l \in BlockLists(n)} : n \in 1..MaxBlocks}

\* the default threshold, and one a block's percentage hits exactly
Thresholds == {COMPRESSION_THRESHOLD, (100 * 9) \div CISO_BLOCK_SIZE}

MaxThreads == 2
Threads == 1..MaxThreads

\* a container laid out by hand: payloads back to back after header and index
RECURSIVE Offsets(_, _)
Offsets(payloads, pos) ==
    IF payloads = <<>> THEN <<pos>>
    ELSE <<pos>> \o Offsets(Tail(payloads), pos + Len(Head(payloads)))

MkCiso(magic, file_size, entries) ==
    LET n    == Len(entries)
        base == CISO_HEADER_SIZE + 4 * (n + 1)
        offs == Offsets([i \in 1..n |-> entries[i].payload], base)
        idx  == [i \in 1..(n + 1) |->
                    IF i <= n /\ ~entries[i].compressed
                    THEN SetBit(offs[i], UNCOMPRESSED_BITMASK) ELSE offs[i]]
    IN magic \o Pack32(CISO_HEADER_SIZE) \o Pack64(file_size)
          \o Pack32(CISO_BLOCK_SIZE) \o <<1, 0, 0, 0>>
          \o PackIndex(idx) \o Flatten([i \in 1..n |-> entries[i].payload])

Stored(data) == [compressed |-> TRUE, payload |-> Deflate(data) \o Trailer(data)]

\* containers not written by CisoCompressor: a block that inflates to half a
\* block, a truncated deflate body after a good block, a raw block cut short
\* by the end of the file, a wrong magic
Crafted ==
    { MkCiso(CISO_MAGIC, CISO_BLOCK_SIZE, <<Stored(Repeat(1, CISO_BLOCK_SIZE \div 2))>>),
      MkCiso(CISO_MAGIC, 2 * CISO_BLOCK_SIZE,
             <<Stored(UniformBlock), [compressed |-> TRUE, payload |-> <<5, 1>>]>>),
      MkCiso(CISO_MAGIC, 2 * CISO_BLOCK_SIZE,
             <<[compressed |-> TRUE, payload |-> <<5, 1>>], Stored(UniformBlock)>>),
      MkCiso(CISO_MAGIC, CISO_BLOCK_SIZE,
             <<[compressed |-> FALSE, payload |-> Repeat(3, CISO_BLOCK_SIZE \div 4)]>>),
      MkCiso(<<67, 73, 83, 48>>, CISO_BLOCK_SIZE, <<Stored(UniformBlock)>>) }

PsicIdle ==
    /\ input = <<>> /\ threads = 1 /\ threshold = COMPRESSION_THRESHOLD
    /\ cso = <<>> /\ align = 0 /\ index_buffer = <<>>
    /\ tasks = <<>> /\ taken = 0 /\ inflight = {} /\ results = <<>>
    /\ wpos = <<>> /\ rpos = <<>>

GsizIdle ==
    /\ gfile = <<>> /\ pristine = <<>> /\ damage = NoDamage /\ header = NoHeader
    /\ skip_broken = FALSE /\ call = NoCall

InitPsic ==
    /\ fmt = "ciso" /\ err = "none" /\ written = <<>> /\ out = <<>>
    /\ align = 0 /\ index_buffer = <<>>
    /\ tasks = <<>> /\ taken = 0 /\ inflight = {} /\ results = <<>>
    /\ wpos = <<>> /\ rpos = <<>>
    /\ threads \in Threads
    /\ \/ /\ pc = "c_start" /\ input \in Inputs /\ threshold \in Thresholds
          /\ cso = <<>>
       \/ /\ pc = "d_start" /\ input = <<>> /\ threshold = COMPRESSION_THRESHOLD
          /\ cso \in Crafted
    /\ GsizIdle

\* ------------------------------------------------------ psic: actions
\* CisoCompressor.compress, lines 135-151: header, placeholder index, and the
\* blocks read for pool.map
CompressBegin ==
    /\ fmt = "ciso" /\ pc = "c_start"
    /\ LET file_size   == Len(input)
           align_      == IF file_size >= LARGE_FILE_SIZE THEN 1 ELSE 0
           block_count == file_size \div CISO_BLOCK_SIZE
       IN /\ align' = align_
          /\ index_buffer' = Repeat(0, block_count + 1)
          /\ cso' = BuildHeader(file_size, CISO_BLOCK_SIZE, align_)
                      \o Repeat(0, 4 * (block_count + 1))
          /\ tasks' = [i \in 1..block_count |->
                          [job |-> "compress", compressed |-> FALSE,
                           data |-> InputBlocks(input)[i]]]
          /\ results' = [i \in 1..block_count |-> NoResult]
          /\ pc' = IF block_count = 0 THEN "c_write" ELSE "c_map"
    /\ taken' = 0 /\ inflight' = {}
    /\ UNCHANGED <<fmt, err, input, threads, threshold, written, out, wpos, rpos>>
    /\ UNCHANGED gsizVars

\* a free worker of the pool takes the next task
PoolTake ==
    /\ fmt = "ciso" /\ pc \in {"c_map", "d_map"}
    /\ taken < Len(tasks) /\ Cardinality(inflight) < threads
    /\ taken' = taken + 1
    /\ inflight' = inflight \cup {taken + 1}
    /\ UNCHANGED <<fmt, pc, err, input, threads, threshold, cso, align,
                   index_buffer, tasks, results, written, out, wpos, rpos>>
    /\ UNCHANGED gsizVars

HelperResult(task, threshold_) ==
    IF task.job = "compress" THEN CompressHelper(task.data, threshold_)
    ELSE DecompressHelper(task.compressed, task.data)

\* a worker finishes its task, in any order; the first failure makes pool.map
\* raise, the last result makes it return
PoolFinish(i) ==
    /\ fmt = "ciso" /\ pc \in {"c_map", "d_map"}
    /\ i \in inflight
    /\ inflight' = inflight \ {i}
    /\ LET r == HelperResult(tasks[i], threshold)
           results_ == [results EXCEPT ![i] = r]
       IN /\ results' = results_
          /\ IF ~r.ok
             THEN /\ pc' = IF pc = "c_map" THEN "c_failed" ELSE "d_failed"
                  /\ err' = r.err
             ELSE /\ pc' = IF MapReturned(results_)
                           THEN (IF pc = "c_map" THEN "c_write" ELSE "d_write")
                           ELSE pc
                  /\ err' = err
    /\ UNCHANGED <<fmt, input, threads, threshold, cso, align, index_buffer,
                   tasks, taken, written, out, wpos, rpos>>
    /\ UNCHANGED gsizVars

\* CisoCompressor.compress, lines 147-161: one turn of the loop over the results
CompressWriteBlock ==
    /\ fmt = "ciso" /\ pc = "c_write"
    /\ Len(written) < Len(tasks)
    /\ LET r         == results[MapNext(written, results)]
           write_pos == Len(cso)
           p         == AlignPadding(write_pos, align)
           e         == IndexEntry(write_pos, p.padding, r.compressed, align)
       IN IF ~p.ok
          THEN /\ pc' = "c_failed" /\ err' = p.err
               /\ UNCHANGED <<cso, index_buffer, written, wpos>>
          ELSE IF ~e.ok
          THEN /\ pc' = "c_failed" /\ err' = "Align error"
               /\ UNCHANGED <<cso, index_buffer, written, wpos>>
          ELSE /\ index_buffer' =
                     [index_buffer EXCEPT ![MapNext(written, results)] = e.index]
               /\ cso' = cso \o p.padding \o r.data
               /\ written' = Append(written, MapNext(written, results) - 1)
               /\ wpos' = Append(wpos, write_pos + Len(p.padding))
               /\ UNCHANGED <<pc, err>>
    /\ UNCHANGED <<fmt, input, threads, threshold, align, tasks, taken, inflight,
                   results, out, rpos>>
    /\ UNCHANGED gsizVars

\* CisoCompressor.compress, lines 163-167: the sentinel entry, and the index
\* packed over its placeholder
CompressFinish ==
    /\ fmt = "ciso" /\ pc = "c_write"
    /\ Len(written) = Len(tasks)
    /\ LET buf == [index_buffer EXCEPT ![Len(index_buffer)] = Shr(Len(cso), align)]
       IN /\ index_buffer' = buf
          /\ IF \E i \in 1..Len(buf) : buf[i] >= INDEX_ENTRY_LIMIT
             THEN /\ pc' = "c_failed" /\ err' = "struct.error"
                  /\ cso' = cso
             ELSE /\ pc' = "c_done" /\ err' = err
                  /\ cso' = WriteAt(cso, CISO_HEADER_SIZE, PackIndex(buf))
    /\ UNCHANGED <<fmt, input, threads, threshold, align, tasks, taken, inflight,
                   results, written, out, wpos, rpos>>
    /\ UNCHANGED gsizVars

\* CisoDecompressor.decompress, lines 88-95: header, index, and the blocks the
\* iterator reads for pool.map
DecompressBegin ==
    /\ fmt = "ciso" /\ pc \in {"c_done", "d_start"}
    /\ LET h           == ReadHeader(Read(cso, 0, CISO_HEADER_SIZE))
           block_count == h.file_size \div h.block_size
           buf         == UnpackIndex(Read(cso, CISO_HEADER_SIZE, 4 * (block_count + 1)),
                                      block_count + 1)
           blocks      == IterBlocks(cso, h.align, buf)
       IN IF h.magic # CISO_MAGIC
          THEN /\ pc' = "d_failed" /\ err' = "CISO magic not found"
               /\ UNCHANGED <<align, index_buffer, tasks, results, rpos>>
          ELSE /\ align' = h.align
               /\ index_buffer' = buf
               /\ tasks' = [i \in 1..block_count |->
                               [job |-> "decompress",
                                compressed |-> blocks[i].compressed,
                                data |-> blocks[i].data]]
               /\ results' = [i \in 1..block_count |-> NoResult]
               /\ rpos' = [i \in 1..block_count |-> BlockStart(buf, i, h.align)]
               /\ pc' = IF block_count = 0 THEN "d_done" ELSE "d_map"
               /\ err' = err
    /\ taken' = 0 /\ inflight' = {} /\ written' = <<>> /\ out' = <<>>
    /\ UNCHANGED <<fmt, input, threads, threshold, cso, wpos>>
    /\ UNCHANGED gsizVars

\* CisoDecompressor.decompress, lines 96-97: one turn of the loop over the
\* results, which ends the run after the last block
DecompressWriteBlock ==
    /\ fmt = "ciso" /\ pc = "d_write"
    /\ Len(written) < Len(tasks)
    /\ out' = Append(out, results[MapNext(written, results)].data)
    /\ written' = Append(written, MapNext(written, results) - 1)
    /\ pc' = IF Len(written) + 1 = Len(tasks) THEN "d_done" ELSE "d_write"
    /\ UNCHANGED <<fmt, err, input, threads, threshold, cso, align, index_buffer,
                   tasks, taken, inflight, results, wpos, rpos>>
    /\ UNCHANGED gsizVars

NextPsic ==
    \/ CompressBegin
    \/ PoolTake
    \/ \E i \in 1..(MaxBlocks + 1) : PoolFinish(i)
    \/ CompressWriteBlock
    \/ CompressFinish
    \/ DecompressBegin
    \/ DecompressWriteBlock

\* --------------------------------------------------------- gsiz: reader
GczErrors == {"GczError: magic", "GczError: illegal block number",
              "GczError: block too large", "GczError: hash",
              "GczError: uncompressed size", "GczError: decompressed size"}

\* GczHeader.load.  The message of the size error is built with
\* '...%d != %d' % self.block_size * self.num_blocks, which applies % to
\* block_size alone and raises TypeError before GczError is constructed.
LoadHeader(file) ==
    LET fields == [NoHeader EXCEPT
                     !.magic_cookie = file.magic_cookie,
                     !.compressed_data_size = file.compressed_data_size,
                     !.data_size = file.data_size,
                     !.block_size = file.block_size,
                     !.num_blocks = file.num_blocks]
    IN IF file.magic_cookie # GCZ_MAGIC
       THEN [ok |-> FALSE, err |-> "GczError: magic", header |-> fields]
       ELSE IF file.block_size * file.num_blocks # file.data_size
       THEN [ok |-> FALSE, err |-> "TypeError", header |-> fields]
       ELSE [ok |-> TRUE, err |-> "none",
             header |-> [fields EXCEPT
                           !.loaded = TRUE, !.tables = TRUE,
                           !.block_pointers = file.block_pointers,
                           !.block_hashes = file.block_hashes]]

\* GczFile.get_block_start: the list lookup raises IndexError past its end
GetBlockStart(h, block_num) ==
    IF block_num >= Len(h.block_pointers)
    THEN [ok |-> FALSE, err |-> "IndexError", start |-> 0]
    ELSE [ok |-> TRUE, err |-> "none",
          start |-> LowBits(h.block_pointers[block_num + 1], UNCOMPRESSED_BLOCK_FLAG)]

\* GczFile.get_block_is_uncompressed
GetBlockIsUncompressed(h, block_num) ==
    HasBit(h.block_pointers[block_num + 1], UNCOMPRESSED_BLOCK_FLAG)

\* get_block_size taking block num_blocks, not num_blocks - 1, for the last one
GetBlockSizeOffByOne(h, block_num) ==
    LET s == GetBlockStart(h, block_num)
    IN IF ~s.ok
       THEN [ok |-> FALSE, err |-> "GczError: illegal block number",
             start |-> 0, size |-> 0]
       ELSE IF block_num = h.num_blocks
       THEN [ok |-> TRUE, err |-> "none", start |-> s.start,
             size |-> h.compressed_data_size - s.start]
       ELSE LET e == GetBlockStart(h, block_num + 1)
            IN IF ~e.ok
               THEN [ok |-> FALSE, err |-> e.err, start |-> s.start, size |-> 0]
               ELSE [ok |-> TRUE, err |-> "none", start |-> s.start,
                     size |-> e.start - s.start]

\* GczFile.get_block_size
GetBlockSize(h, block_num) ==
    LET s == GetBlockStart(h, block_num)
    IN IF ~s.ok
       THEN [ok |-> FALSE, err |-> "GczError: illegal block number",
             start |-> 0, size |-> 0]
       ELSE IF block_num = h.num_blocks - 1
       THEN [ok |-> TRUE, err |-> "none", start |-> s.start,
             size |-> h.compressed_data_size - s.start]
       ELSE LET e == GetBlockStart(h, block_num + 1)
            IN IF ~e.ok
               THEN [ok |-> FALSE, err |-> e.err, start |-> s.start, size |-> 0]
               ELSE [ok |-> TRUE, err |-> "none", start |-> s.start,
                     size |-> e.start - s.start]

\* GczFile.compute_block_hash
ComputeBlockHash(block_data) == adler32(block_data)

\* get_block decoding before it compares the checksum
GetBlockDecodeFirst(h, file, block_num) ==
    LET bs         == GetBlockSize(h, block_num)
        block_data == Read(file.data, bs.start, bs.size)
        fail(e)    == [ok |-> FALSE, err |-> e, data |-> <<>>]
        z          == ZlibDecompress(block_data)
    IN IF ~bs.ok THEN fail(bs.err)
       ELSE IF bs.size > h.block_size THEN fail("GczError: block too large")
       ELSE IF ~GetBlockIsUncompressed(h, block_num) /\ ~z.ok THEN fail(z.err)
       ELSE IF ComputeBlockHash(block_data) # h.block_hashes[block_num + 1]
       THEN fail("GczError: hash")
       ELSE IF GetBlockIsUncompressed(h, block_num)
       THEN IF bs.size # h.block_size THEN fail("GczError: uncompressed size")
            ELSE [ok |-> TRUE, err |-> "none", data |-> block_data]
       ELSE IF Len(z.data) # h.block_size
       THEN fail("GczError: decompressed size")
       ELSE [ok |-> TRUE, err |-> "none", data |-> z.data]

\* GczFile.get_block; file.data is the payload area, which starts at
\* header.full_size in the file
GetBlock(h, file, block_num) ==
    LET bs         == GetBlockSize(h, block_num)
        block_data == Read(file.data, bs.start, bs.size)
        fail(e)    == [ok |-> FALSE, err |-> e, data |-> <<>>]
    IN IF ~bs.ok THEN fail(bs.err)
       ELSE IF bs.size > h.block_size THEN fail("GczError: block too large")
       ELSE IF ComputeBlockHash(block_data) # h.block_hashes[block_num + 1]
       THEN fail("GczError: hash")
       ELSE IF GetBlockIsUncompressed(h, block_num)
       THEN IF bs.size # h.block_size THEN fail("GczError: uncompressed size")
            ELSE [ok |-> TRUE, err |-> "none", data |-> block_data]
       ELSE LET z == ZlibDecompress(block_data)
            IN IF ~z.ok THEN fail(z.err)
               ELSE IF Len(z.data) # h.block_size
               THEN fail("GczError: decompressed size")
               ELSE [ok |-> TRUE, err |-> "none", data |-> z.data]

\* GczDecompressor.decompress, lines 137-144: the block written for block i.
\* The zero block is built from gcz_file.handle, an attribute GczFile does not
\* have (it has _handle and header), so building it raises AttributeError.
DecompressBlock(h, file, i, skip_broken_) ==
    LET b == GetBlock(h, file, i)
    IN IF b.ok THEN b
       ELSE IF b.err \in GczErrors /\ skip_broken_
       THEN [ok |-> FALSE, err |-> "AttributeError", data |-> <<>>]
       ELSE b

\* --------------------------------------------------------- gsiz: inputs
\* stored forms of a block: deflated, raw, and deflated from a short block
GczPayloads ==
    { [raw |-> FALSE, payload |-> ZlibCompress(Repeat(2, GCZ_BLOCK_SIZE))],
      [raw |-> TRUE,  payload |-> <<0, 2, 0>> \o Repeat(3, GCZ_BLOCK_SIZE - 3)],
      [raw |-> FALSE, payload |-> ZlibCompress(Repeat(1, GCZ_BLOCK_SIZE - 2))] }

RECURSIVE PayloadLists(_)
PayloadLists(n) == IF n = 0 THEN {<<>>}
                   ELSE {Append(l, b) : l \in PayloadLists(n - 1), b \in GczPayloads}

MkGcz(entries) ==
    LET n    == Len(entries)
        offs == Offsets([i \in 1..n |-> entries[i].payload], 0)
    IN [magic_cookie |-> GCZ_MAGIC,
        compressed_data_size |-> offs[n + 1],
        data_size |-> GCZ_BLOCK_SIZE * n,
        block_size |-> GCZ_BLOCK_SIZE,
        num_blocks |-> n,
        block_pointers |-> [i \in 1..n |->
            IF entries[i].raw THEN SetBit(offs[i], UNCOMPRESSED_BLOCK_FLAG)
            ELSE offs[i]],
        block_hashes |-> [i \in 1..n |-> adler32(entries[i].payload)],
        data |-> Flatten([i \in 1..n |-> entries[i].payload])]

GczFiles == UNION {{MkGcz(l) : l \in PayloadLists(n)} : n \in 1..MaxGczBlocks}

\* the stored bytes of block k (from 0) of a file laid out by MkGcz
StoredRange(file, k) ==
    LET start == LowBits(file.block_pointers[k + 1], UNCOMPRESSED_BLOCK_FLAG)
        end   == IF k + 1 = file.num_blocks THEN file.compressed_data_size
                 ELSE LowBits(file.block_pointers[k + 2], UNCOMPRESSED_BLOCK_FLAG)
    IN [start |-> start, end |-> end]

\* first byte changed
FlipBytes(b) == [b EXCEPT ![1] = (b[1] + 1) % 256]

\* three bytes x, y, z changed to x+1, y-2, z+1: another string of the same
\* length and the same Adler-32
RECURSIVE ShiftBytes(_, _)
ShiftBytes(b, p) ==
    IF p + 2 > Len(b) THEN FlipBytes(b)
    ELSE IF b[p + 1] >= 2 /\ b[p] < 255 /\ b[p + 2] < 255
    THEN [b EXCEPT ![p] = b[p] + 1, ![p + 1] = b[p + 1] - 2, ![p + 2] = b[p + 2] + 1]
    ELSE ShiftBytes(b, p + 1)

DamageKinds == {"flip", "shift", "hash", "flag"}

Damaged(file, d) ==
    LET k == d.block
        r == StoredRange(file, k)
        bytes == SubSeq(file.data, r.start + 1, r.end)
    IN CASE d.kind = "none"  -> file
         [] d.kind = "magic" -> [file EXCEPT !.magic_cookie = "B10BC000"]
         [] d.kind = "size"  -> [file EXCEPT !.data_size = @ + 1]
         [] d.kind = "grow"  -> [file EXCEPT !.compressed_data_size = @ + 4,
                                             !.data = @ \o <<0, 0, 0, 0>>]
         [] d.kind = "flip"  -> [file EXCEPT !.data = WriteAt(@, r.start, FlipBytes(bytes))]
         [] d.kind = "shift" -> [file EXCEPT !.data = WriteAt(@, r.start, ShiftBytes(bytes, 1))]
         [] d.kind = "hash"  -> [file EXCEPT !.block_hashes[k + 1] = @ + 1]
         [] d.kind = "flag"  -> [file EXCEPT !.block_pointers[k + 1] =
                                    IF HasBit(@, UNCOMPRESSED_BLOCK_FLAG)
                                    THEN @ - UNCOMPRESSED_BLOCK_FLAG
                                    ELSE @ + UNCOMPRESSED_BLOCK_FLAG]

Damages(file) ==
    {[kind |-> k, block |-> 0] : k \in {"none", "magic", "size", "grow"}}
    \cup {[kind |-> k, block |-> b] : k \in DamageKinds, b \in 0..(file.num_blocks - 1)}

InitGsiz ==
    /\ fmt = "gcz" /\ err = "none" /\ written = <<>> /\ out = <<>>
    /\ pc \in {"g_start", "g_open"}
    /\ pristine \in GczFiles
    /\ damage \in Damages(pristine)
    /\ gfile = Damaged(pristine, damage)
    /\ skip_broken \in BOOLEAN
    /\ pc = "g_open" => ~skip_broken
    /\ header = NoHeader /\ call = NoCall
    /\ PsicIdle

\* --------------------------------------------------------- gsiz: actions
\* GczFile.__init__, called by a client ("g_open") or by
\* GczDecompressor.decompress, line 132 ("g_start")
GczOpen ==
    /\ fmt = "gcz" /\ pc \in {"g_start", "g_open"}
    /\ LET r == LoadHeader(gfile)
       IN /\ header' = r.header
          /\ err' = r.err
          /\ pc' = IF ~r.ok THEN "g_failed"
                   ELSE IF pc = "g_open" THEN "g_file"
                   ELSE IF r.header.num_blocks = 0 THEN "g_done"
                   ELSE "g_loop"
    /\ UNCHANGED <<fmt, written, out, gfile, pristine, damage, skip_broken, call>>
    /\ UNCHANGED psicVars

\* a client calls GczFile.get_block_size(block_num)
GetBlockSizeCall(block_num) ==
    /\ fmt = "gcz" /\ pc = "g_file"
    /\ LET r == GetBlockSize(header, block_num)
       IN call' = [op |-> "get_block_size", block_num |-> block_num, ok |-> r.ok,
                   err |-> r.err, size |-> r.size, start |-> r.start, data |-> <<>>]
    /\ UNCHANGED <<fmt, pc, err, written, out, gfile, pristine, damage, header,
                   skip_broken>>
    /\ UNCHANGED psicVars

\* a client calls GczFile.get_block(block_num)
GetBlockCall(block_num) ==
    /\ fmt = "gcz" /\ pc = "g_file"
    /\ LET r == GetBlock(header, gfile, block_num)
       IN call' = [op |-> "get_block", block_num |-> block_num, ok |-> r.ok,
                   err |-> r.err, size |-> 0, start |-> 0, data |-> r.data]
    /\ UNCHANGED <<fmt, pc, err, written, out, gfile, pristine, damage, header,
                   skip_broken>>
    /\ UNCHANGED psicVars

\* GczDecompressor.decompress, lines 136-145: one turn of the loop
GczWriteBlock ==
    /\ fmt = "gcz" /\ pc = "g_loop"
    /\ LET i == Len(written)
           b == DecompressBlock(header, gfile, i, skip_broken)
       IN IF b.ok
          THEN /\ out' = Append(out, b.data)
               /\ written' = Append(written, i)
               /\ pc' = IF i + 1 = header.num_blocks THEN "g_done" ELSE "g_loop"
               /\ err' = err
          ELSE /\ pc' = "g_failed" /\ err' = b.err
               /\ UNCHANGED <<out, written>>
    /\ UNCHANGED <<fmt, gfile, pristine, damage, header, skip_broken, call>>
    /\ UNCHANGED psicVars

NextGsiz ==
    \/ GczOpen
    \/ \E b \in 0..(MaxGczBlocks + 1) : GetBlockSizeCall(b)
    \/ \E b \in 0..(MaxGczBlocks + 1) : GetBlockCall(b)
    \/ GczWriteBlock

\* ------------------------------------------------------ specification
Init == InitPsic \/ InitGsiz
Next == NextPsic \/ NextGsiz
Spec == Init /\ [][Next]_vars

\* ============================================================ claims
\* the bytes compress is to store for a block when it compresses it
CompressedBytes(raw) == Deflate(raw) \o Trailer(raw)

InCompress   == fmt = "ciso" /\ pc \in {"c_write", "c_done", "c_failed"}
InDecompress == fmt = "ciso" /\ pc \in {"d_map", "d_write", "d_done", "d_failed"}

\* C1: compress followed by decompress of the generated container writes
\* exactly the input stream, for every input of whole blocks.
C1_RoundTrip ==
    (fmt = "ciso" /\ pc = "d_done" /\ input # <<>>) => Flatten(out) = input

\* C2: a block whose compressed size is, as a percentage of its raw size, at or
\* above the threshold is written raw with the flag bit set in its index entry,
\* any other block is written compressed with the flag bit clear; a block whose
\* entry has the flag bit set decompresses to the bytes read, not inflated.
C2_ThresholdRule ==
    /\ InCompress =>
         \A i \in 1..Len(wpos) :
            LET raw == InputBlocks(input)[i]
                c   == CompressedBytes(raw)
            IN IF 100 * Len(c) >= threshold * Len(raw)
               THEN /\ Read(cso, wpos[i], Len(raw)) = raw
                    /\ HasBit(index_buffer[i], UNCOMPRESSED_BITMASK)
               ELSE /\ Read(cso, wpos[i], Len(c)) = c
                    /\ ~HasBit(index_buffer[i], UNCOMPRESSED_BITMASK)
    /\ InDecompress =>
         \A i \in 1..Len(results) :
            (results[i].done /\ HasBit(index_buffer[i], UNCOMPRESSED_BITMASK))
               => /\ results[i].ok
                  /\ results[i].data = Read(cso, rpos[i], CISO_BLOCK_SIZE)

C2_Witness ==
    /\ fmt = "ciso" /\ pc = "d_done" /\ input # <<>>
    /\ \E i, j \in 1..Len(results) :
          /\ HasBit(index_buffer[i], UNCOMPRESSED_BITMASK)
          /\ ~HasBit(index_buffer[j], UNCOMPRESSED_BITMASK)
          /\ out[i] = InputBlocks(input)[i]
          /\ (100 * Len(CompressedBytes(InputBlocks(input)[i])))
                \div Len(InputBlocks(input)[i]) = threshold

\* the bytes of block k of the file read, by the layout of the file
StoredBytes(file, k) ==
    SubSeq(file.data, StoredRange(file, k).start + 1, StoredRange(file, k).end)

ByteDamage == damage.kind \in {"flip", "shift"}

IsGetBlock == fmt = "gcz" /\ call.op = "get_block" /\ call.block_num < header.num_blocks

Outcome(r) == <<r.ok, r.err, r.data>>

\* C3 as stated: corrupting the stored bytes of block k makes get_block(k) fail
\* with the checksum error, and leaves get_block(j) of every other block as it
\* was.
C3_Original ==
    (IsGetBlock /\ ByteDamage) =>
        IF call.block_num = damage.block
        THEN ~call.ok /\ call.err = "GczError: hash"
        ELSE Outcome(call) = Outcome(GetBlock(LoadHeader(pristine).header, pristine,
                                              call.block_num))

\* C3 amended: get_block computes the checksum over the bytes as read, before
\* any decode step, and fails with the checksum error when it differs from the
\* stored one; corrupting the stored bytes of block k so that their checksum
\* changes makes get_block(k) fail with that error, and get_block(j) of every
\* other block gives what it gave before.
C3_ChecksumIsolation ==
    IsGetBlock =>
        LET k     == call.block_num
            bytes == StoredBytes(gfile, k)
        IN /\ (Len(bytes) <= header.block_size
                  /\ adler32(bytes) # gfile.block_hashes[k + 1])
                => (~call.ok /\ call.err = "GczError: hash")
           /\ (ByteDamage /\ k = damage.block
                  /\ adler32(bytes) # adler32(StoredBytes(pristine, k)))
                => (~call.ok /\ call.err = "GczError: hash")
           /\ (ByteDamage /\ k # damage.block)
                => Outcome(call) = Outcome(GetBlock(LoadHeader(pristine).header,
                                                    pristine, k))

C3_Witness ==
    /\ IsGetBlock /\ damage.kind = "flip" /\ call.block_num = damage.block
    /\ ~GetBlockIsUncompressed(header, call.block_num)
    /\ ~ZlibDecompress(StoredBytes(gfile, call.block_num)).ok
    /\ call.err = "GczError: hash"

\* C4: with skip_broken, a block get_block fails on is written as block_size
\* zero bytes and the run goes on, so it completes with num_blocks blocks of
\* block_size bytes.
C4_SkipBroken ==
    (fmt = "gcz" /\ skip_broken /\ header.loaded /\ pc \in {"g_done", "g_failed"})
       => /\ pc = "g_done"
          /\ Len(out) = header.num_blocks
          /\ \A i \in 1..Len(out) :
                /\ Len(out[i]) = header.block_size
                /\ ~GetBlock(header, gfile, i - 1).ok
                      => out[i] = Repeat(0, header.block_size)

\* C5: a header with the right magic and block_size * num_blocks # data_size
\* fails to load with a GczError, before the tables are read or a block is
\* written.
C5_HeaderSizeCheck ==
    (fmt = "gcz" /\ pc \notin {"g_start", "g_open"}
        /\ gfile.magic_cookie = GCZ_MAGIC
        /\ gfile.block_size * gfile.num_blocks # gfile.data_size)
       => /\ pc = "g_failed"
          /\ err \in GczErrors
          /\ ~header.tables
          /\ out = <<>>

\* C6: for block_num < num_blocks get_block_size succeeds, the start is the
\* pointer without its flag bit and the size is the next start, or
\* compressed_data_size for the last block, minus the start, which is the range
\* holding the bytes the block's checksum was recorded for; for block_num >=
\* num_blocks it fails with the illegal-block-number GczError.
C6_BlockAddressing ==
    (fmt = "gcz" /\ call.op = "get_block_size") =>
        LET b == call.block_num
            n == gfile.num_blocks
            masked(i) == gfile.block_pointers[i + 1] % UNCOMPRESSED_BLOCK_FLAG
        IN IF b < n
           THEN /\ call.ok
                /\ call.start = masked(b)
                /\ call.size = (IF b = n - 1 THEN gfile.compressed_data_size
                                ELSE masked(b + 1)) - masked(b)
                /\ damage.kind \in {"none", "hash", "flag"}
                      => adler32(Read(gfile.data, call.start, call.size))
                            = pristine.block_hashes[b + 1]
           ELSE ~call.ok /\ call.err = "GczError: illegal block number"

C6_Witness ==
    /\ fmt = "gcz" /\ call.op = "get_block_size" /\ call.ok
    /\ header.num_blocks >= 2
    /\ call.block_num = header.num_blocks - 1
    /\ HasBit(header.block_pointers[call.block_num + 1], UNCOMPRESSED_BLOCK_FLAG)
    /\ call.start + call.size = header.compressed_data_size
    /\ call.size = GCZ_BLOCK_SIZE

\* C7: in both formats every block decoded successfully, and so every block
\* written, has exactly the fixed block size.
C7_DecodedLength ==
    /\ fmt = "gcz" => \A i \in 1..Len(out) : Len(out[i]) = header.block_size
    /\ InDecompress =>
          /\ \A i \in 1..Len(out) : Len(out[i]) = CISO_BLOCK_SIZE
          /\ \A i \in 1..Len(results) :
                (results[i].done /\ results[i].ok)
                   => Len(results[i].data) = CISO_BLOCK_SIZE

\* C8: the decompressor reads every block at (entry & INDEX_BITMASK) shifted
\* left by the header's align.
C8_BlockStartOffset ==
    InDecompress =>
        \A i \in 1..Len(rpos) :
            rpos[i] = Shl(LowBits(index_buffer[i], UNCOMPRESSED_BITMASK), align)

\* C9: compress never gets past a block whose shifted offset has the flag bit
\* set, raw or compressed, so the low bits of every entry of a finished index
\* are the block's shifted offset.
C9_AlignError ==
    (fmt = "ciso" /\ pc \in {"c_write", "c_done"}) =>
        \A i \in 1..Len(wpos) :
            /\ ~HasBit(Shr(wpos[i], align), UNCOMPRESSED_BITMASK)
            /\ LowBits(index_buffer[i], UNCOMPRESSED_BITMASK) = Shr(wpos[i], align)

\* the blocks of the current run that fail
FailingBlocks ==
    IF fmt = "gcz"
    THEN {k \in 0..(header.num_blocks - 1) : ~GetBlock(header, gfile, k).ok}
    ELSE {k \in 0..(Len(tasks) - 1) : ~HelperResult(tasks[k + 1], threshold).ok}

\* C10: the blocks written so far are blocks 0..k-1 in ascending order, each
\* once, and the output holds their results in that order; a run that a failing
\* block aborted (skip_broken not set) ended with the error of a failing block
\* and wrote no block from the first failing one on.
C10_OrderedFailFast ==
    /\ written = [i \in 1..Len(written) |-> i - 1]
    /\ InDecompress =>
          /\ Len(out) = Len(written)
          /\ \A i \in 1..Len(out) :
                out[i] = DecompressHelper(tasks[i].compressed, tasks[i].data).data
    /\ (fmt = "gcz" /\ header.loaded) =>
          /\ Len(out) = Len(written)
          /\ \A i \in 1..Len(out) : out[i] = GetBlock(header, gfile, i - 1).data
    /\ (pc = "d_failed" /\ tasks # <<>>) =>
          /\ \E k \in FailingBlocks : err = HelperResult(tasks[k + 1], threshold).err
          /\ \A k \in FailingBlocks : \A i \in 1..Len(written) : written[i] < k
    /\ (pc = "g_failed" /\ header.loaded /\ ~skip_broken) =>
          /\ Len(written) \in FailingBlocks
          /\ err = GetBlock(header, gfile, Len(written)).err
          /\ \A k \in FailingBlocks : Len(written) <= k
    /\ (pc \in {"d_done", "g_done"}) => FailingBlocks = {}

C10_Witness ==
    /\ fmt = "ciso" /\ pc = "d_failed" /\ Len(tasks) = 2
    /\ results[2].done /\ results[2].ok
    /\ results[1].done /\ ~results[1].ok
    /\ written = <<>> /\ out = <<>>
====
